---------------------------- MODULE Spec2Model ----------------------------
(***************************************************************************)
(* Model of the reconcile-and-await engine of psetup.                      *)
(*                                                                         *)
(*   - watch: psetup/utils.py (identical body: workload._watch) and        *)
(*     psetup/operation.py, the polling of a long-running operation;       *)
(*   - the matchers (_get_*, diff, find) and the apply/generate functions  *)
(*     that call them.                                                     *)
(*                                                                         *)
(* An operation message (a python dict) is a record telling, for each of   *)
(* the four keys the code reads, whether the key is present and its value. *)
(***************************************************************************)
EXTENDS Integers, Sequences, FiniteSets, TLC

VARIABLES
    \* ---- watch ----
    variant,        \* which watch function runs: "utils" or "operation"
    period,         \* argument period
    timeout,        \* argument timeout
    initial,        \* the operation argument as passed by the caller
    operation,      \* local variable operation
    time_elapsed,   \* local variable time_elapsed
    wpc,            \* position in watch
    sleepsA,        \* sleep(period) calls made by the first loop
    sleepsB,        \* sleep(period) calls made by the second loop
    fetches,        \* request.execute() calls made
    outcome,        \* "running", "returned" or "raised"
    ret,            \* the value returned
    err,            \* the exception raised
    \* ---- matcher and apply/generate ----
    kind,           \* the resource kind reconciled
    pages,          \* what the remote listing answers, page by page
    emptyAsNone,    \* list_all answers None (not an empty list) when empty
    request,        \* index of the next page to request, 0 for None
    listed,         \* pages of the listing fetched so far
    existing,       \* local variable existing (the last matching item)
    acc,            \* the list accumulated (projects, folders, orgs, data)
    mpc,            \* position in the reconcile
    mres,           \* how the matcher ended
    found,          \* the item the matcher reports as existing
    merr,           \* the arguments of the exception raised by the matcher
    mask,           \* the update mask computed
    creates,        \* create calls issued
    patches,        \* patch calls issued
    current,        \* the resource the reconcile ends with
    rout,           \* how the reconcile ended
    created,        \* the resource answered by the create call
    diffs,          \* calls of the diff function made by the reconcile
    \* ---- a second run of the same reconcile ----
    run,            \* 1 during the first run, 2 during the second
    firstRun,       \* what the first run did
    \* ---- create followed by watch ----
    script,         \* what the remote side answers to the successive fetches
    \* ---- the diff functions ----
    differ,         \* which diff function runs
    declared_obj,   \* the declared descriptor
    existing_obj,   \* the existing descriptor
    declared_obj0,  \* the declared descriptor as passed
    existing_obj0,  \* the existing descriptor as passed
    dmask,          \* the list the diff function returns
    dpc,            \* position in the diff function
    \* ---- IAM policies ----
    policy,         \* the bindings of the declared policy
    remote,         \* the bindings of the policy held by the remote resource
    remote0,        \* the bindings held before the call
    sent,           \* the bindings carried by the last setIamPolicy request
    ppc,            \* position in the policy function
    \* ---- add_control ----
    held,           \* the bindings of the policy each resource holds
    held0,          \* the bindings each resource held before the calls
    extend,         \* the calls of add_control: resource, extra policy,
                    \* response of get_iam_policy, position
    overlapped,     \* a call read the policy while another call on the
                    \* same resource was between its read and its write
    \* ---- IamPolicy ----
    objects,        \* the python lists: what each list object holds
    self_bindings,  \* self.bindings: the roles in insertion order, each
                    \* with the list object of its members
    declarations,   \* the (role, members) declared so far
    pending,        \* the bindings the constructor has still to read
    ipc,            \* position in the life of the IamPolicy
    \* ---- the caller of watch ----
    cancel,         \* the caller wants the wait to stop
    \* ---- failures of the lookup ----
    failure,        \* how the remote call of the matcher fails
    \* ---- the descriptor after create ----
    self_name,      \* self.name of the descriptor
    \* ---- the configuration ----
    config,         \* config of from_yaml, the base of the next _override
    config0,        \* config as it was handed to _override
    files,          \* the dictionaries loaded from the configuration files
    loaded,         \* how many of them have been merged
    config_error    \* the exception _override raised

watchVars == <<variant, period, timeout, initial, operation, time_elapsed,
               wpc, sleepsA, sleepsB, fetches, outcome, ret, err>>

matcherVars == <<kind, pages, emptyAsNone, request, listed, existing, acc, mpc, mres,
                 found, merr, mask, creates, patches, current, rout,
                 created, diffs>>

runVars == <<run, firstRun>>

diffVars == <<differ, declared_obj, existing_obj, declared_obj0,
              existing_obj0, dmask, dpc>>

policyVars == <<policy, remote, remote0, sent, ppc>>

extendVars == <<held, held0, extend, overlapped>>

iamVars == <<objects, self_bindings, declarations, pending, ipc>>

\* what the functions of the repository never read or write
envVars == <<cancel, failure>>

recordVars == <<self_name>>

configVars == <<config, config0, files, loaded, config_error>>

laterVars == <<extendVars, iamVars, envVars, recordVars, configVars>>

\* what neither watch nor the matchers touch
otherVars == <<runVars, script, diffVars, policyVars, laterVars>>

vars == <<watchVars, matcherVars, otherVars>>

-----------------------------------------------------------------------------
(* Bounds *)
MaxPeriod == 3
MaxTimeout == 4
MaxPages == 2
MaxPageLen == 2

(* Defaults of watch(api, operation, period=5, timeout=60) *)
DefaultPeriod == 5
DefaultTimeout == 60

-----------------------------------------------------------------------------
(* Operation messages *)

NoName == "noname"
Absent == "absent"
None == "none"

\* {}
EmptyDict == [k \in {} |-> None]

Names == {NoName, "op/1"}
DoneVals == {Absent, "false", "true"}
ErrorVals == {None, "e1"}
ResponseVals == {None, "r1", "r2"}

Operations == [name : Names, done : DoneVals,
               error : ErrorVals, response : ResponseVals]

\* what request.execute() can answer: any message of the operation "op/1"
Payloads == {o \in Operations : o.name = "op/1"}

HasName(op) == op.name # NoName          \* 'name' in operation
HasDone(op) == op.done # Absent          \* 'done' in operation
HasError(op) == op.error # None          \* 'error' in operation
HasResponse(op) == op.response # None    \* 'response' in operation

Params == ((1..MaxPeriod) \X (1..MaxTimeout))
             \cup {<<DefaultPeriod, DefaultTimeout>>}

Variants == {"utils", "operation"}

Ceil(t, p) == (t + p - 1) \div p

-----------------------------------------------------------------------------
(* Values returned and exceptions raised by watch *)

NoRet == [shape |-> "none", op |-> [name |-> NoName, done |-> Absent,
                                    error |-> None, response |-> None]]
NoErr == [kind |-> "none", carriesOp |-> FALSE, op |-> NoRet.op]

\* return operation
RetOperation(op) == [shape |-> "operation", op |-> op]
\* return operation['response']
RetResponse(op) == [shape |-> "response", op |-> op]
\* return {}
RetEmpty(op) == [shape |-> "empty", op |-> NoRet.op]

\* the result payload a caller can read in the returned value
ResultOf(r) == IF r.shape \in {"operation", "response"}
               THEN r.op.response ELSE None

\* RuntimeError(<fixed message>)
ErrFixed(k) == [kind |-> k, carriesOp |-> FALSE, op |-> NoRet.op]
\* RuntimeError(<message> + str(operation))
ErrWithOp(k, op) == [kind |-> k, carriesOp |-> TRUE, op |-> op]

\* a second loop that also polls a message whose 'done' is True
StillRunning_Always(op) == HasDone(op)

\* the test of the second loop: operation['done'] is False
StillRunning(op) == op.done = "false"

\* a loop that no count of iterations ends
TimedOut_Never(te, t, p) == FALSE

\* the bound of both loops: time_elapsed > timeout % period
TimedOut(te, t, p) == te > t % p

\* the response entry tested before the error entry
FinalResult_ResponseFirst(v, op) ==
    IF HasResponse(op)
    THEN [outcome |-> "returned", err |-> NoErr,
          ret |-> IF v = "utils" THEN RetResponse(op) ELSE RetOperation(op)]
    ELSE IF HasError(op)
    THEN [outcome |-> "raised", ret |-> NoRet,
          err |-> ErrWithOp("operation_error", op)]
    ELSE [outcome |-> "returned", ret |-> RetEmpty(op), err |-> NoErr]

\* after the loops: the error entry, then the response entry
FinalResult(v, op) ==
    IF HasError(op)
    THEN [outcome |-> "raised", ret |-> NoRet,
          err |-> ErrWithOp("operation_error", op)]
    ELSE IF ~HasResponse(op)
    THEN IF v = "utils"
         THEN [outcome |-> "returned", ret |-> RetEmpty(op), err |-> NoErr]
         ELSE [outcome |-> "raised", ret |-> NoRet,
               err |-> ErrWithOp("no_response", op)]
    ELSE IF v = "utils"
         THEN [outcome |-> "returned", ret |-> RetResponse(op), err |-> NoErr]
         ELSE [outcome |-> "returned", ret |-> RetOperation(op), err |-> NoErr]

-----------------------------------------------------------------------------
(* watch *)

WatchInit ==
    /\ variant \in Variants
    /\ \E pt \in Params : period = pt[1] /\ timeout = pt[2]
    /\ initial \in Operations
    /\ operation = initial
    /\ time_elapsed = 0
    /\ wpc = "start"
    /\ sleepsA = 0
    /\ sleepsB = 0
    /\ fetches = 0
    /\ outcome = "running"
    /\ ret = NoRet
    /\ err = NoErr

Finished(o, r, e) ==
    /\ wpc' = "done"
    /\ outcome' = o
    /\ ret' = r
    /\ err' = e

\* the two tests on the initial message and the construction of the request
WatchStart ==
    /\ wpc = "start"
    /\ UNCHANGED <<matcherVars, otherVars>>
    /\ IF ~HasName(operation) /\ ~HasDone(operation)
       THEN Finished("raised", NoRet, ErrFixed("message_error"))
       ELSE IF ~HasName(operation) /\ operation.done = "true"
       THEN Finished("returned", RetOperation(operation), NoErr)
       ELSE IF ~HasName(operation)
       THEN \* operation['name'] of a message without a name
            Finished("raised", NoRet, ErrFixed("KeyError"))
       ELSE /\ wpc' = "loopA"
            /\ UNCHANGED <<outcome, ret, err>>
    /\ time_elapsed' = 0
    /\ UNCHANGED <<variant, period, timeout, initial, operation,
                   sleepsA, sleepsB, fetches>>

\* first loop, one iteration: sleep then fetch
StatusPoll ==
    /\ wpc = "loopA"
    /\ UNCHANGED <<matcherVars, otherVars>>
    /\ ~HasDone(operation)
    /\ ~TimedOut(time_elapsed, timeout, period)
    /\ time_elapsed' = time_elapsed + 1
    /\ sleepsA' = sleepsA + 1
    /\ fetches' = fetches + 1
    /\ operation' \in Payloads
    /\ UNCHANGED <<variant, period, timeout, initial, wpc, sleepsB,
                   outcome, ret, err>>

\* first loop: raise RuntimeError(status_timeout)
StatusTimeout ==
    /\ wpc = "loopA"
    /\ UNCHANGED <<matcherVars, otherVars>>
    /\ ~HasDone(operation)
    /\ TimedOut(time_elapsed, timeout, period)
    /\ Finished("raised", NoRet, ErrFixed("status_timeout"))
    /\ UNCHANGED <<variant, period, timeout, initial, operation,
                   time_elapsed, sleepsA, sleepsB, fetches>>

\* the second loop goes on counting where the first loop stopped
ResetElapsed_Keep(te) == te

\* time_elapsed = 0  between the two loops
ResetElapsed(te) == 0

\* the first loop ends; time_elapsed = 0 before the second loop
StatusVisible ==
    /\ wpc = "loopA"
    /\ UNCHANGED <<matcherVars, otherVars>>
    /\ HasDone(operation)
    /\ wpc' = "loopB"
    /\ time_elapsed' = ResetElapsed(time_elapsed)
    /\ UNCHANGED <<variant, period, timeout, initial, operation,
                   sleepsA, sleepsB, fetches, outcome, ret, err>>

\* second loop, one iteration: sleep then fetch
CompletionPoll ==
    /\ wpc = "loopB"
    /\ UNCHANGED <<matcherVars, otherVars>>
    /\ HasDone(operation)
    /\ StillRunning(operation)
    /\ ~TimedOut(time_elapsed, timeout, period)
    /\ time_elapsed' = time_elapsed + 1
    /\ sleepsB' = sleepsB + 1
    /\ fetches' = fetches + 1
    /\ operation' \in Payloads
    /\ UNCHANGED <<variant, period, timeout, initial, wpc, sleepsA,
                   outcome, ret, err>>

\* second loop: raise RuntimeError(completion_timeout)
CompletionTimeout ==
    /\ wpc = "loopB"
    /\ UNCHANGED <<matcherVars, otherVars>>
    /\ HasDone(operation)
    /\ StillRunning(operation)
    /\ TimedOut(time_elapsed, timeout, period)
    /\ Finished("raised", NoRet, ErrFixed("completion_timeout"))
    /\ UNCHANGED <<variant, period, timeout, initial, operation,
                   time_elapsed, sleepsA, sleepsB, fetches>>

\* second loop: operation['done'] of a fetched message without 'done'
CompletionKeyError ==
    /\ wpc = "loopB"
    /\ UNCHANGED <<matcherVars, otherVars>>
    /\ ~HasDone(operation)
    /\ Finished("raised", NoRet, ErrFixed("KeyError"))
    /\ UNCHANGED <<variant, period, timeout, initial, operation,
                   time_elapsed, sleepsA, sleepsB, fetches>>

\* the second loop ends: error entry, response entry, return
WatchFinish ==
    /\ wpc = "loopB"
    /\ UNCHANGED <<matcherVars, otherVars>>
    /\ HasDone(operation)
    /\ ~StillRunning(operation)
    /\ LET f == FinalResult(variant, operation)
       IN Finished(f.outcome, f.ret, f.err)
    /\ UNCHANGED <<variant, period, timeout, initial, operation,
                   time_elapsed, sleepsA, sleepsB, fetches>>

\* the caller sets its cancellation signal while watch is polling; watch
\* has no parameter for it, and no statement of watch reads it
SignalCancel ==
    /\ wpc \in {"loopA", "loopB"}
    /\ ~cancel
    /\ cancel' = TRUE
    /\ UNCHANGED <<watchVars, matcherVars, runVars, script, diffVars,
                   policyVars, extendVars, iamVars, failure, recordVars,
                   configVars>>

CancelNext ==
    \/ WatchStart
    \/ StatusPoll
    \/ StatusTimeout
    \/ StatusVisible
    \/ CompletionPoll
    \/ CompletionTimeout
    \/ CompletionKeyError
    \/ WatchFinish
    \/ SignalCancel

WatchNext ==
    \/ WatchStart
    \/ StatusPoll
    \/ StatusTimeout
    \/ StatusVisible
    \/ CompletionPoll
    \/ CompletionTimeout
    \/ CompletionKeyError
    \/ WatchFinish


-----------------------------------------------------------------------------
(* Matchers: the items of a listing *)

\* An item of a listing.  rid is its resource name, key tells how its
\* identity compares to the declared one ("match": equal, "broader": it
\* contains the declared name without being equal to it), desc is its
\* description attribute.
NoItem == [rid |-> <<0, 0>>, key |-> "none", desc |-> "none"]
Declared == [key |-> "match", desc |-> "d1"]

ListKinds == {"role", "pool", "service_account"}
SearchKinds == {"folder", "project", "root_project"}
TfcKinds == {"tfc_project", "tfc_workspace", "tfc_variable"}
Kinds == ListKinds \cup SearchKinds \cup TfcKinds
             \cup {"organization", "tag_key"}

\* kinds whose matcher keeps the last item that equals the declared name
LastWinsKinds == ListKinds \cup {"tfc_workspace", "tfc_variable"}
\* kinds whose apply function calls the update function
UpdateKinds == ListKinds \cup {"tfc_variable", "tag_key"}
\* kinds whose apply function either creates or updates:
\*   apply_variable returns right after the create call,
\*   generate_root_tag updates in the elif branch of the create
EitherKinds == {"tfc_variable", "tag_key"}

DescVals == {"d1", "d2"}
ItemShapes == [key : {"match", "broader"}, desc : DescVals]

\* what the remote side can put in a listing of the kind:
\*  - list(parent=...) answers every item of the parent;
\*  - search(query='... displayName=X ...'), search(query='... labels.root=true')
\*    and search_organizations(query='domain:X') answer items equal to the query;
\*  - list_all(query=name) and list_all(search=name) answer every item whose
\*    name contains the text.
ShapesOf(k) ==
    IF k \in ListKinds \cup {"tfc_variable"}
    THEN {sh \in ItemShapes : sh.key = "match" \/ sh.desc = "d1"}
    ELSE IF k = "tag_key"
    THEN {sh \in ItemShapes : sh.key = "match"}
    ELSE IF k \in TfcKinds
    THEN {sh \in ItemShapes : sh.desc = "d1"}
    ELSE {sh \in ItemShapes : sh.key = "match" /\ sh.desc = "d1"}

SeqsUpTo(S, n) == UNION {[1..m -> S] : m \in 0..n}

\* getNamespaced(name=...) answers the one tag key of that name, or 403
Listings(k) ==
    IF k = "tag_key"
    THEN \* one page: empty for 403, else the tag key
         {<<pg>> : pg \in {<<>>} \cup {<<sh>> : sh \in ShapesOf(k)}}
    ELSE {l \in SeqsUpTo(SeqsUpTo(ShapesOf(k), MaxPageLen), MaxPages) :
             Len(l) >= 1}

Itemize(l) ==
    [p \in 1..Len(l) |->
        [i \in 1..Len(l[p]) |->
            [rid |-> <<p, i>>, key |-> l[p][i].key, desc |-> l[p][i].desc]]]

RECURSIVE Flatten(_)
Flatten(ps) == IF ps = <<>> THEN <<>> ELSE Head(ps) \o Flatten(Tail(ps))

IdentityMatch(it) == it.key = "match"

MaxOf(S) == CHOOSE x \in S : \A y \in S : y <= x

\* for result in results: if result['name'] == declared.name: existing = result
LastMatch(page, prev) ==
    LET idx == {i \in 1..Len(page) : IdentityMatch(page[i])}
    IN IF idx = {} THEN prev ELSE page[MaxOf(idx)]

\* a listing that stops after its first page
NextRequest_FirstPageOnly(req, ps) == 0

\* list_next / search_next: None after the last page
NextRequest(req, ps) == IF req < Len(ps) THEN req + 1 ELSE 0

NamesOf(items) == [i \in 1..Len(items) |-> items[i].rid]

NoMErr == [carriesNames |-> FALSE, names |-> <<>>, count |-> 0]

-----------------------------------------------------------------------------
(* Matchers: classification after the listing *)

MFound(it) == [res |-> "Found", found |-> it, err |-> NoMErr]
MNotFound == [res |-> "NotFound", found |-> NoItem, err |-> NoMErr]

MatcherResult(k, ex, ac, asNone) ==
    IF k \in LastWinsKinds
    THEN \* if existing is None: raise IndexError(0)
         IF ex = NoItem THEN MNotFound ELSE MFound(ex)
    ELSE IF k \in {"folder", "project"}
    THEN IF ac = <<>> THEN MNotFound
         ELSE IF Len(ac) = 1 THEN MFound(ac[1])
         ELSE \* RuntimeError('... found: {0}'.format(len(folders)))
              [res |-> "Ambiguous", found |-> NoItem,
               err |-> [carriesNames |-> FALSE, names |-> <<>>,
                        count |-> Len(ac)]]
    ELSE IF k = "root_project"
    THEN IF ac = <<>> THEN MNotFound
         ELSE IF Len(ac) = 1 THEN MFound(ac[1])
         ELSE \* print('clear'); return None
              MNotFound
    ELSE IF k = "organization"
    THEN IF Len(ac) > 1
         THEN \* TypeError([ org.name for org in orgs ])
              [res |-> "Ambiguous", found |-> NoItem,
               err |-> [carriesNames |-> TRUE, names |-> NamesOf(ac),
                        count |-> Len(ac)]]
         ELSE IF ac = <<>> THEN MNotFound ELSE MFound(ac[1])
    ELSE IF k = "tag_key"
    THEN \* except HttpError as e: if e.status_code != 403: raise e
         \*                         return None
         IF ac = <<>> THEN MNotFound ELSE MFound(ac[1])
    ELSE \* tfc_project: projects['data'][0]
         IF ac = <<>>
         THEN IF asNone THEN MNotFound
              ELSE [res |-> "IndexError", found |-> NoItem, err |-> NoMErr]
         ELSE MFound(ac[1])

\* the mask of the update function: the attributes that differ (description
\* is the attribute the items of the listing carry)
Diff(declared, ex) ==
    IF ex.desc # declared.desc THEN {"description"} ELSE {}

\* the resource answered by a create call; cd is the description the remote
\* side puts in its answer
CreatedAs(cd) == [rid |-> <<0, 1>>, key |-> Declared.key, desc |-> cd]

\* ServiceAccount(account_id=..., project=...): the other attributes are None
FreshOf(it) == [it EXCEPT !.desc = "none"]

\* a create call is issued whatever the matcher answered
MustCreate_Always(r) == TRUE

\* except IndexError as e: if e.args[0] == 0  /  if diff is None
MustCreate(r) == r.res = "NotFound"

\* a patch call is issued whatever the mask
MustPatch_Always(m) == TRUE

\* if not mask: return existing  /  elif diff != {}
MustPatch(m) == m # {}

\* the update function runs on an existing resource, and, but for the
\* kinds that either create or update, on the resource just created
RunsUpdate(k, r) ==
    k \in UpdateKinds /\ (r.res = "NotFound" => k \notin EitherKinds)

NoApply(o, cur) ==
    [rout |-> o, creates |-> 0, patches |-> 0, mask |-> {}, current |-> cur,
     created |-> NoItem, diffs |-> 0]

\* the apply/generate function after the matcher ended with r
ApplyResult(k, r, cd) ==
    IF r.res = "Ambiguous"
    THEN NoApply("ambiguous", NoItem)
    ELSE IF r.res = "Failed"
    THEN \* the exception of the remote call leaves the function
         NoApply("failed", NoItem)
    ELSE IF r.res = "IndexError"
    THEN \* except IndexError as e: if e.args[0] == 0 -- not taken
         NoApply("ok", NoItem)
    ELSE IF k = "organization"
    THEN NoApply(IF r.res = "Found" THEN "ok" ELSE "error", r.found)
    ELSE IF k = "root_project" /\ r.res = "NotFound"
    THEN \* project.apply(...): RootProject has no method apply
         NoApply("error", NoItem)
    ELSE LET c == MustCreate(r)
             crt == IF c THEN CreatedAs(cd) ELSE NoItem
             cur == IF c THEN crt ELSE r.found
             upd == RunsUpdate(k, r)
             m == IF upd THEN Diff(Declared, cur) ELSE {}
             p == upd /\ MustPatch(m)
         IN [rout |-> "ok",
             creates |-> IF c THEN 1 ELSE 0,
             patches |-> IF p THEN 1 ELSE 0,
             mask |-> m,
             current |-> IF p THEN [cur EXCEPT !.desc = Declared.desc]
                         ELSE IF upd /\ k = "service_account"
                         THEN FreshOf(cur) ELSE cur,
             created |-> crt,
             diffs |-> IF upd THEN 1 ELSE 0]

-----------------------------------------------------------------------------
(* Matchers and apply/generate: the steps *)

MatcherInit ==
    /\ kind \in Kinds
    /\ \E l \in Listings(kind) : pages = Itemize(l)
    /\ emptyAsNone \in (IF kind = "tfc_project" THEN BOOLEAN ELSE {FALSE})
    /\ request = 1
    /\ listed = 0
    /\ existing = NoItem
    /\ acc = <<>>
    /\ mpc = "list"
    /\ mres = "none"
    /\ found = NoItem
    /\ merr = NoMErr
    /\ mask = {}
    /\ creates = 0
    /\ patches = 0
    /\ current = NoItem
    /\ rout = "running"
    /\ created = NoItem
    /\ diffs = 0

\* one turn of  while request is not None  (or of the pager)
FetchPage ==
    /\ UNCHANGED <<watchVars, otherVars>>
    /\ mpc = "list"
    /\ kind \notin TfcKinds
    /\ request # 0
    /\ IF kind \in LastWinsKinds
       THEN /\ existing' = LastMatch(pages[request], existing)
            /\ acc' = acc
       ELSE /\ acc' = acc \o pages[request]
            /\ existing' = existing
    /\ request' = NextRequest(request, pages)
    /\ listed' = listed + 1
    /\ UNCHANGED <<kind, pages, emptyAsNone, mpc, mres, found, merr, mask,
                   creates, patches, current, rout, created, diffs>>

\* list_all(...): every page in one call of the library
ListAll ==
    /\ UNCHANGED <<watchVars, otherVars>>
    /\ mpc = "list"
    /\ kind \in TfcKinds
    /\ request # 0
    /\ IF kind \in LastWinsKinds
       THEN /\ existing' = LastMatch(Flatten(pages), existing)
            /\ acc' = acc
       ELSE /\ acc' = Flatten(pages)
            /\ existing' = existing
    /\ request' = 0
    /\ listed' = Len(pages)
    /\ UNCHANGED <<kind, pages, emptyAsNone, mpc, mres, found, merr, mask,
                   creates, patches, current, rout, created, diffs>>

\* the end of the matcher: NotFound, Found or an exception
Decide ==
    /\ UNCHANGED <<watchVars, otherVars>>
    /\ mpc = "list"
    /\ request = 0
    /\ LET r == MatcherResult(kind, existing, acc, emptyAsNone)
       IN /\ mres' = r.res
          /\ found' = r.found
          /\ merr' = r.err
    /\ mpc' = "decided"
    /\ UNCHANGED <<kind, pages, emptyAsNone, request, listed, existing, acc,
                   mask,
                   creates, patches, current, rout, created, diffs>>

\* the rest of the apply/generate function
Apply ==
    /\ UNCHANGED <<watchVars, otherVars>>
    /\ mpc = "decided"
    /\ \E cd \in DescVals :
       LET a == ApplyResult(kind, [res |-> mres, found |-> found,
                                   err |-> merr], cd)
       IN /\ rout' = a.rout
          /\ created' = a.created
          /\ diffs' = a.diffs
          /\ creates' = a.creates
          /\ patches' = a.patches
          /\ mask' = a.mask
          /\ current' = a.current
    /\ mpc' = "done"
    /\ UNCHANGED <<kind, pages, emptyAsNone, request, listed, existing, acc,
                   mres,
                   found, merr>>

\* the ways the remote call of a matcher fails: HTTP 403, another HTTP
\* status, no answer at all
Failures == {"denied", "http", "transport"}

\* the matcher after its remote call raised f. No matcher catches anything
\* but TagKey.diff:
\*     except HttpError as e:
\*         if e.status_code != 403: raise e
\*         return None
FailureResult(k, f) ==
    IF k = "tag_key" /\ f = "denied"
    THEN MNotFound
    ELSE [res |-> "Failed", found |-> NoItem, err |-> NoMErr]

\* request.execute() / list_all(...) raises instead of answering
LookupFails ==
    /\ mpc = "list"
    /\ request # 0
    /\ failure = "none"
    /\ \E f \in Failures :
          /\ failure' = f
          /\ LET r == FailureResult(kind, f)
             IN /\ mres' = r.res
                /\ found' = r.found
                /\ merr' = r.err
    /\ mpc' = "decided"
    /\ UNCHANGED <<kind, pages, emptyAsNone, request, listed, existing, acc,
                   mask, creates, patches, current, rout, created, diffs>>
    /\ UNCHANGED <<watchVars, runVars, script, diffVars, policyVars,
                   extendVars, iamVars, cancel, recordVars, configVars>>

FaultNext ==
    \/ FetchPage
    \/ ListAll
    \/ Decide
    \/ Apply
    \/ LookupFails

MatcherNext ==
    \/ FetchPage
    \/ ListAll
    \/ Decide
    \/ Apply

-----------------------------------------------------------------------------
(* IAM policies: control (organization.py, service_account.py),             *)
(* _control_access (billing.py) and access_control (folder.py, project.py,  *)
(* tags.py)                                                                 *)

MaxBindings == 2

Roles == {"A", "B"}
MemberLists == {<<"x">>, <<"y">>, <<"x", "y">>}

\* a binding of a policy: {'role': ..., 'members': [...]}
Bindings == [role : Roles, members : MemberLists]

\* the bindings of a policy, in their order
Policies == SeqsUpTo(Bindings, MaxBindings)

NoRequest == [api |-> "none", bindings |-> <<>>]

\* the request carries the declared bindings after those the resource holds
SetRequest_Merged(a, pol, cur) == [api |-> a, bindings |-> cur \o pol]

\* SetIamPolicyRequest(resource=..., policy=policy);
\* setIamPolicy(resource=..., body=...): the request carries the declared
\* bindings and nothing of the policy the resource holds
SetRequest(a, pol, cur) == [api |-> a, bindings |-> pol]

\* 'bindings': [{'role': binding.role, 'members': list(binding.members)}
\*              for binding in policy.bindings]
BodyOf(pol) ==
    [i \in 1..Len(pol) |-> [role |-> pol[i].role, members |-> pol[i].members]]

\* setIamPolicy: the resource holds the policy of the request
Stored(req) == req.bindings

PolicyInit ==
    /\ policy \in Policies
    /\ remote \in Policies
    /\ remote0 = remote
    /\ sent = NoRequest
    /\ ppc = "start"

PolicySet(req) ==
    /\ sent' = req
    /\ remote' = Stored(req)
    /\ ppc' = "done"
    /\ UNCHANGED <<policy, remote0>>
    /\ UNCHANGED <<watchVars, matcherVars, runVars, script, diffVars, laterVars>>

\* organization.control and billing._control_access
OrganizationControl ==
    /\ ppc = "start"
    /\ PolicySet(SetRequest("set_iam_policy", policy, remote))

\* service_account.control
ServiceAccountControl ==
    /\ ppc = "start"
    /\ PolicySet(SetRequest("serviceAccounts.setIamPolicy", BodyOf(policy),
                            remote))

\* access_control of a folder, a project or a tag key
AccessControl ==
    /\ ppc = "start"
    /\ PolicySet(SetRequest("setIamPolicy", policy, remote))

PolicyNext ==
    \/ OrganizationControl
    \/ ServiceAccountControl
    \/ AccessControl

-----------------------------------------------------------------------------
(* add_control (organization.py): get_iam_policy, MergeFrom, set_iam_policy *)

MaxHeld == 1

\* the processes that call add_control, and the organizations they name
Callers == {"c1", "c2"}
Resources == {"org1", "org2"}

\* the bindings a resource holds before the calls
HeldBindings == [role : Roles, members : {<<"x">>, <<"y">>}]
HeldPolicies == SeqsUpTo(HeldBindings, MaxHeld)

\* policy = Policy(); policy.bindings.add(role=..., members=[ member ])
ExtraPolicies ==
    {<<b>> : b \in [role : Roles, members : {<<"x">>, <<"y">>, <<"z">>}]}

\* the declared bindings take the place of those read
MergeFrom_Replace(bs, extra) == extra

\* response.bindings.MergeFrom(policy.bindings): on a repeated field the
\* elements of the argument are appended to those of the receiver
MergeFrom(bs, extra) == bs \o extra

\* the policy read is empty whatever the resource holds
GetIamPolicy_Fresh(st, r) == <<>>

\* client.get_iam_policy(GetIamPolicyRequest(resource=organization))
GetIamPolicy(st, r) == st[r]

\* every request names the same organization
Target_Shared(c) == "org1"

\* resource=organization, in both requests of the call
Target(c) == extend[c].resource

ExtendInit ==
    /\ held \in [Resources -> HeldPolicies]
    /\ held0 = held
    /\ extend \in [Callers -> [resource : Resources, extra : ExtraPolicies,
                               response : {<<>>}, pc : {"start"}]]
    /\ overlapped = FALSE

ExtendFrame ==
    UNCHANGED <<watchVars, matcherVars, runVars, script, diffVars,
                policyVars, iamVars, envVars, recordVars, configVars>>

\* add_control up to the answer of get_iam_policy
AddControlGet(c) ==
    /\ extend[c].pc = "start"
    /\ extend' = [extend EXCEPT ![c].response = GetIamPolicy(held, Target(c)),
                                ![c].pc = "read"]
    /\ overlapped' =
          (overlapped \/ \E d \in Callers \ {c} :
                            /\ Target(d) = Target(c)
                            /\ extend[d].pc = "read")
    /\ UNCHANGED <<held, held0>>
    /\ ExtendFrame

\* add_control from MergeFrom to the answer of set_iam_policy
AddControlSet(c) ==
    /\ extend[c].pc = "read"
    /\ held' = [held EXCEPT ![Target(c)] =
                   Stored(SetRequest("set_iam_policy",
                                     MergeFrom(extend[c].response,
                                               extend[c].extra),
                                     held[Target(c)]))]
    /\ extend' = [extend EXCEPT ![c].pc = "done"]
    /\ UNCHANGED <<held0, overlapped>>
    /\ ExtendFrame

ExtendNext ==
    \E c \in Callers :
        \/ AddControlGet(c)
        \/ AddControlSet(c)

-----------------------------------------------------------------------------
(* IamPolicy (utils.py): __init__, add and the property policy              *)

MaxDeclared == 2
MaxAdds == 1

\* the list objects the caller passes as 'members'; two bindings that name
\* the same object share one python list
ObjectIds == {"l1", "l2"}

\* a binding as passed: {'role': ..., 'members': <list object>}
InputBindings == [role : Roles, obj : ObjectIds]

\* the roles that are keys of self.bindings
KeysOfPolicy(sb) == {sb[i].role : i \in 1..Len(sb)}

\* self.bindings[role]: the list object stored under the key
ObjectOf(sb, r) == (CHOOSE i \in 1..Len(sb) : sb[i].role = r)

\* if not binding['role'] in self.bindings:
\*     self.bindings.update({binding['role']: binding['members']})
\* else:
\*     self.bindings[binding['role']].extend(binding['members'])
\* update stores the caller's list object itself; extend changes the stored
\* object in place by the elements the argument holds at that moment
Declare(b) ==
    /\ IF b.role \notin KeysOfPolicy(self_bindings)
       THEN /\ self_bindings' = Append(self_bindings, b)
            /\ objects' = objects
       ELSE /\ self_bindings' = self_bindings
            /\ objects' =
                  [objects EXCEPT
                      ![self_bindings[ObjectOf(self_bindings, b.role)].obj] =
                          @ \o objects[b.obj]]
    /\ declarations' =
          Append(declarations, [role |-> b.role, members |-> objects[b.obj]])

\* 'bindings': [{'role': role, 'members': members}
\*              for role, members in self.bindings.items()]
Rendered ==
    [i \in 1..Len(self_bindings) |->
        [role |-> self_bindings[i].role,
         members |-> objects[self_bindings[i].obj]]]

IamInit ==
    /\ objects \in [ObjectIds -> {<<"x">>, <<"y">>}]
    /\ self_bindings = <<>>
    /\ declarations = <<>>
    /\ pending \in SeqsUpTo(InputBindings, MaxDeclared)
    /\ ipc = "init"

IamFrame ==
    UNCHANGED <<watchVars, matcherVars, runVars, script, diffVars,
                policyVars, extendVars, envVars, recordVars, configVars>>

\* __init__: one turn of  for binding in bindings
IamConstruct ==
    /\ ipc = "init"
    /\ Len(declarations) < Len(pending)
    /\ Declare(pending[Len(declarations) + 1])
    /\ UNCHANGED <<pending, ipc>>
    /\ IamFrame

\* __init__ returns (at once when bindings is None or empty)
IamConstructed ==
    /\ ipc = "init"
    /\ Len(declarations) = Len(pending)
    /\ ipc' = "ready"
    /\ UNCHANGED <<objects, self_bindings, declarations, pending>>
    /\ IamFrame

\* add(binding)
IamAdd ==
    /\ ipc = "ready"
    /\ Len(declarations) - Len(pending) < MaxAdds
    /\ \E b \in InputBindings : Declare(b)
    /\ UNCHANGED <<pending, ipc>>
    /\ IamFrame

IamNext ==
    \/ IamConstruct
    \/ IamConstructed
    \/ IamAdd

-----------------------------------------------------------------------------
(* Specifications *)

WatchIdle ==
    /\ variant = "utils"
    /\ period = DefaultPeriod
    /\ timeout = DefaultTimeout
    /\ initial = NoRet.op
    /\ operation = NoRet.op
    /\ time_elapsed = 0
    /\ wpc = "idle"
    /\ sleepsA = 0
    /\ sleepsB = 0
    /\ fetches = 0
    /\ outcome = "running"
    /\ ret = NoRet
    /\ err = NoErr

MatcherIdle ==
    /\ kind = "none"
    /\ pages = <<>>
    /\ emptyAsNone = FALSE
    /\ request = 0
    /\ listed = 0
    /\ existing = NoItem
    /\ acc = <<>>
    /\ mpc = "idle"
    /\ mres = "none"
    /\ found = NoItem
    /\ merr = NoMErr
    /\ mask = {}
    /\ creates = 0
    /\ patches = 0
    /\ current = NoItem
    /\ rout = "running"
    /\ created = NoItem
    /\ diffs = 0

RunIdle ==
    /\ run = 0
    /\ firstRun = [creates |-> 0, patches |-> 0]

ScriptIdle == script = <<>>

DiffIdle ==
    /\ differ = "none"
    /\ declared_obj = <<>>
    /\ existing_obj = <<>>
    /\ declared_obj0 = <<>>
    /\ existing_obj0 = <<>>
    /\ dmask = <<>>
    /\ dpc = "idle"

PolicyIdle ==
    /\ policy = <<>>
    /\ remote = <<>>
    /\ remote0 = <<>>
    /\ sent = NoRequest
    /\ ppc = "idle"

ExtendIdle ==
    /\ held = <<>>
    /\ held0 = <<>>
    /\ extend = <<>>
    /\ overlapped = FALSE

IamIdle ==
    /\ objects = <<>>
    /\ self_bindings = <<>>
    /\ declarations = <<>>
    /\ pending = <<>>
    /\ ipc = "idle"

EnvIdle ==
    /\ cancel = FALSE
    /\ failure = "none"

\* self.name = None
RecordIdle == self_name = None

ConfigIdle ==
    /\ config = EmptyDict
    /\ config0 = EmptyDict
    /\ files = <<>>
    /\ loaded = 0
    /\ config_error = None

LaterIdle == ExtendIdle /\ IamIdle /\ EnvIdle /\ RecordIdle /\ ConfigIdle

SpecWatchInit ==
    WatchInit /\ MatcherIdle /\ RunIdle /\ ScriptIdle /\ DiffIdle /\ PolicyIdle
    /\ LaterIdle
SpecWatch == SpecWatchInit /\ [][WatchNext]_vars

\* watch is sequential code: a statement that can run does run (sleep
\* returns, request.execute() answers or raises)
SpecWatchFair == SpecWatch /\ WF_vars(WatchNext)

SpecCancel == SpecWatchInit /\ [][CancelNext]_vars

SpecMatcherInit ==
    MatcherInit /\ WatchIdle /\ RunIdle /\ ScriptIdle /\ DiffIdle /\ PolicyIdle
    /\ LaterIdle
SpecMatcher == SpecMatcherInit /\ [][MatcherNext]_vars

SpecPolicyInit ==
    PolicyInit /\ WatchIdle /\ MatcherIdle /\ RunIdle /\ ScriptIdle /\ DiffIdle
    /\ LaterIdle
SpecPolicy == SpecPolicyInit /\ [][PolicyNext]_vars

SpecExtendInit ==
    ExtendInit /\ WatchIdle /\ MatcherIdle /\ RunIdle /\ ScriptIdle /\ DiffIdle
    /\ PolicyIdle /\ IamIdle /\ EnvIdle /\ RecordIdle /\ ConfigIdle
SpecExtend == SpecExtendInit /\ [][ExtendNext]_vars

SpecIamInit ==
    IamInit /\ WatchIdle /\ MatcherIdle /\ RunIdle /\ ScriptIdle /\ DiffIdle
    /\ PolicyIdle /\ ExtendIdle /\ EnvIdle /\ RecordIdle /\ ConfigIdle
SpecIam == SpecIamInit /\ [][IamNext]_vars

\* the remote side holds at most one resource, listed on one page;
\* getNamespaced answers the tag key or fails
SpecFaultInit ==
    /\ MatcherInit
    /\ Len(pages) = 1
    /\ Len(pages[1]) <= 1
    /\ kind = "tag_key" => pages[1] # <<>>
    /\ WatchIdle /\ RunIdle /\ ScriptIdle /\ DiffIdle /\ PolicyIdle
    /\ LaterIdle
SpecFault == SpecFaultInit /\ [][FaultNext]_vars

-----------------------------------------------------------------------------
(* Create followed by watch: _create_pool, WorkspaceFolder.create,          *)
(* RootProject.create and TagKey.create (tag.py; RootTagValue.create has    *)
(* the same body) inside their apply/generate function                      *)

\* the kinds whose create function awaits the operation with watch
AwaitedKinds == {"pool", "folder", "project", "tag_key"}

\* _create_pool calls _watch, whose body is the body of utils.watch;
\* folder.py and project.py call operation.watch
VariantOf(k) == IF k = "pool" THEN "utils" ELSE "operation"

\* the resource a response entry describes
ResourceOf(resp) ==
    [rid |-> <<0, 1>>, key |-> Declared.key,
     desc |-> IF resp = "r1" THEN "d1" ELSE "d2"]

\* the answer of the n-th fetch
Answer(sc, n) == sc[IF n <= Len(sc) THEN n ELSE Len(sc)]

\* the name of the resource a response entry describes
ResourceName(resp) == IF resp = "r1" THEN "res/1" ELSE "res/2"

\* what the create function records in self.name, given the message watch
\* returned:
\*   self.name = result['response']['name']     (folder.py, project.py)
\*   self.name = result['name']                 (tag.py)
\* a pool has no attribute name
RecordedName(k, r) ==
    IF k = "tag_key" THEN r.op.name
    ELSE IF k = "pool" THEN None
    ELSE ResourceName(r.op.response)

\* the create function answers the declared resource
CreatedFrom_Echo(k, r) == CreatedAs(Declared.desc)

\* what the create function makes of the value watch returned:
\*   existing_pool.update_from_dict(result) reads the attributes of a
\*   response and finds none in {} or in an operation message;
\*   if not 'response' in result: raise RuntimeError(...)
\*   return result['response']
CreatedFrom(k, r) ==
    IF k = "pool"
    THEN IF r.shape = "response"
         THEN ResourceOf(r.op.response)
         ELSE FreshOf(CreatedAs(Declared.desc))
    ELSE IF k = "tag_key" /\ ~HasName(r.op)
    THEN \* result['name'] of a message without a name
         NoItem
    ELSE IF HasResponse(r.op) THEN ResourceOf(r.op.response) ELSE NoItem

\* the create request is executed and watch is called with its answer,
\* period and timeout left to their defaults
CreateCall ==
    /\ mpc = "decided"
    /\ kind \in AwaitedKinds
    /\ MustCreate([res |-> mres, found |-> found, err |-> merr])
    /\ creates' = creates + 1
    /\ mpc' = "awaiting"
    /\ \E o \in Operations : initial' = o /\ operation' = o
    /\ variant' = VariantOf(kind)
    /\ period' = DefaultPeriod
    /\ timeout' = DefaultTimeout
    /\ time_elapsed' = 0
    /\ wpc' = "start"
    /\ sleepsA' = 0
    /\ sleepsB' = 0
    /\ fetches' = 0
    /\ outcome' = "running"
    /\ ret' = NoRet
    /\ err' = NoErr
    /\ UNCHANGED <<kind, pages, emptyAsNone, request, listed, existing, acc,
                   mres, found, merr, mask, patches, current, rout, created,
                   diffs>>
    /\ UNCHANGED otherVars

ScriptedStatusPoll == StatusPoll /\ operation' = Answer(script, fetches')

ScriptedCompletionPoll ==
    CompletionPoll /\ operation' = Answer(script, fetches')

\* watch ended: the rest of the create function, then the rest of the
\* apply/generate function
CreateReturn ==
    /\ mpc = "awaiting"
    /\ wpc = "done"
    /\ LET r == [res |-> mres, found |-> found, err |-> merr]
           crt == IF outcome = "returned" THEN CreatedFrom(kind, ret)
                  ELSE NoItem
           upd == crt # NoItem /\ RunsUpdate(kind, r)
           m == IF upd THEN Diff(Declared, crt) ELSE {}
           p == upd /\ MustPatch(m)
       IN /\ created' = crt
          /\ rout' = IF crt = NoItem THEN "error" ELSE "ok"
          /\ diffs' = IF upd THEN 1 ELSE 0
          /\ mask' = m
          /\ patches' = IF p THEN 1 ELSE 0
          /\ current' = IF p THEN [crt EXCEPT !.desc = Declared.desc] ELSE crt
          /\ self_name' = IF crt # NoItem THEN RecordedName(kind, ret)
                          ELSE self_name
    /\ mpc' = "done"
    /\ UNCHANGED <<kind, pages, emptyAsNone, request, listed, existing, acc,
                   mres, found, merr, creates>>
    /\ UNCHANGED <<watchVars, runVars, script, diffVars, policyVars,
                   extendVars, iamVars, envVars, configVars>>

CreateNext ==
    \/ FetchPage
    \/ Decide
    \/ CreateCall
    \/ WatchStart
    \/ ScriptedStatusPoll
    \/ StatusTimeout
    \/ StatusVisible
    \/ ScriptedCompletionPoll
    \/ CompletionTimeout
    \/ CompletionKeyError
    \/ WatchFinish
    \/ CreateReturn

\* no existing resource has the declared identity; the listing has one page
SpecCreateInit ==
    /\ MatcherInit
    /\ kind \in AwaitedKinds
    /\ Len(pages) = 1
    /\ \A i \in 1..Len(pages[1]) : ~IdentityMatch(pages[1][i])
    /\ WatchIdle /\ RunIdle /\ DiffIdle /\ PolicyIdle
    /\ LaterIdle
    /\ script \in [1..2 -> Payloads]

SpecCreate == SpecCreateInit /\ [][CreateNext]_vars

-----------------------------------------------------------------------------
(* The same reconcile run twice, nothing else changing the remote side     *)

\* the listing after a reconcile: a resource created is listed, with the
\* attributes the create call asked for; a resource patched has the
\* attributes the patch call asked for
RemoteAfter(ps, c, p, fnd) ==
    IF c > 0
    THEN LET n == Len(ps)
             it == [rid |-> <<n, Len(ps[n]) + 1>>, key |-> Declared.key,
                    desc |-> Declared.desc]
         IN [ps EXCEPT ![n] = Append(ps[n], it)]
    ELSE IF p > 0
    THEN [i \in 1..Len(ps) |->
            [j \in 1..Len(ps[i]) |->
                IF ps[i][j].rid = fnd.rid
                THEN [ps[i][j] EXCEPT !.desc = Declared.desc]
                ELSE ps[i][j]]]
    ELSE ps

\* the apply/generate function is called again with the same arguments
SecondRun ==
    /\ mpc = "done"
    /\ run = 1
    /\ run' = 2
    /\ firstRun' = [creates |-> creates, patches |-> patches]
    /\ pages' = RemoteAfter(pages, creates, patches, found)
    /\ request' = 1
    /\ listed' = 0
    /\ existing' = NoItem
    /\ acc' = <<>>
    /\ mpc' = "list"
    /\ mres' = "none"
    /\ found' = NoItem
    /\ merr' = NoMErr
    /\ mask' = {}
    /\ creates' = 0
    /\ patches' = 0
    /\ current' = NoItem
    /\ rout' = "running"
    /\ created' = NoItem
    /\ diffs' = 0
    /\ UNCHANGED <<kind, emptyAsNone>>
    /\ UNCHANGED <<watchVars, script, diffVars, policyVars, laterVars>>

TwiceNext ==
    \/ FetchPage
    \/ ListAll
    \/ Decide
    \/ Apply
    \/ SecondRun

\* the names the list calls answer are unique within their parent: at most
\* one item has the declared name
SpecTwiceInit ==
    /\ MatcherInit
    /\ kind \in Kinds \ {"organization"}
    /\ kind \in LastWinsKinds
          => Len(SelectSeq(Flatten(pages), IdentityMatch)) <= 1
    /\ WatchIdle /\ ScriptIdle /\ DiffIdle /\ PolicyIdle
    /\ LaterIdle
    /\ run = 1
    /\ firstRun = [creates |-> 0, patches |-> 0]

SpecTwice == SpecTwiceInit /\ [][TwiceNext]_vars

-----------------------------------------------------------------------------
(* The diff functions: role._diff, workload._diff, ServiceAccount.diff,     *)
(* Variable.diff, VariableSet.diff and RootProject.diff                     *)

MaxListLen == 2
MaxChanged == 1

\* python values.  A string, None, a list of strings, the dict of a provider
\* ({'allowedAudiences': l, 'issuerUri': s}); Missing is a key that a dict
\* does not have.
PyNone == [t |-> "none", s |-> "", l |-> <<>>]
Missing == [t |-> "missing", s |-> "", l |-> <<>>]
Str(x) == [t |-> "str", s |-> x, l |-> <<>>]
List(q) == [t |-> "list", s |-> "", l |-> q]
Oidc(q, u) == [t |-> "dict", s |-> u, l |-> q]

SetOf(q) == {q[i] : i \in 1..Len(q)}

Differs == {"role", "pool", "provider", "service_account", "variable",
            "variableset", "root_project"}

\* the attributes in the order of __dict__ (of the dict attributes for a
\* variable and a variable set); "created-at" stands for the keys that only
\* the remote side puts in the attributes of a variable
KeysOf(d) ==
    CASE d = "role" ->
           <<"role_id", "parent", "description", "title", "stage",
             "includedPermissions">>
      [] d = "pool" ->
           <<"pool_id", "project", "display_name", "description", "disabled">>
      [] d = "provider" ->
           <<"provider_id", "parent", "attribute_condition",
             "attribute_mapping", "description", "disabled", "display_name",
             "oidc">>
      [] d = "service_account" ->
           <<"account_id", "project", "description", "display_name">>
      [] d = "variable" ->
           <<"key", "value", "sensitive", "category", "hcl", "description",
             "created-at">>
      [] d = "variableset" ->
           <<"name", "description", "global", "priority">>
      [] d = "root_project" ->
           <<"name", "uuid", "displayName", "labels", "projectId">>

ObjKeys(d) ==
    SetOf(KeysOf(d)) \cup (IF d = "variableset" THEN {"projects"} ELSE {})

\* the descriptors whose attributes are a dict filled from the remote answer
DictDiffers == {"variable", "variableset"}

ListVals == SeqsUpTo({"p", "q"}, MaxListLen)

BaseVal(k) ==
    IF k = "includedPermissions" THEN List(<<"p", "q">>)
    ELSE IF k = "projects" THEN List(<<"p">>)
    ELSE IF k = "oidc" THEN Oidc(<<"p", "q">>, "a")
    ELSE IF k = "disabled" THEN Str("False")
    ELSE IF k = "created-at" THEN Missing
    ELSE Str("a")

Base(d) == [k \in ObjKeys(d) |-> BaseVal(k)]

\* the values an attribute can take, in the declared descriptor (side
\* "declared") and in the existing one (side "existing")
Dom(d, k, side) ==
    IF k = "disabled" THEN {Str("False")}
    ELSE IF k = "includedPermissions"
    THEN {List(q) : q \in ListVals} \cup {PyNone}
    ELSE IF k = "projects"
    THEN IF side = "declared"
         THEN {List(q) : q \in {r \in ListVals : Len(r) <= 1}}
         ELSE {List(q) : q \in ListVals}
    ELSE IF k = "oidc"
    THEN {Oidc(q, "a") : q \in ListVals} \cup {PyNone}
    ELSE IF k = "created-at"
    THEN IF side = "declared" THEN {Missing} ELSE {Missing, Str("a")}
    ELSE {Str("a"), Str("b"), PyNone}
           \cup (IF d \in DictDiffers /\ side = "existing"
                 THEN {Missing} ELSE {})

Change1(d, side, S) ==
    S \cup UNION {UNION {{[o EXCEPT ![k] = v] : v \in Dom(d, k, side)} :
                            k \in ObjKeys(d)} : o \in S}

RECURSIVE Changed(_, _, _, _)
Changed(d, side, S, n) ==
    IF n = 0 THEN S ELSE Changed(d, side, Change1(d, side, S), n - 1)

\* self.attributes.get(attr, None)
Get(o, k) == IF o[k] = Missing THEN PyNone ELSE o[k]

\* a value that is None compares equal to anything
Unequal_UnlessNone(a, b) == a # b /\ a # PyNone /\ b # PyNone

\* !=
Unequal(a, b) == a # b

\* role._diff, one attribute:
\*   if isinstance(getattr(existing, attr), list): set(...) != set(...)
\*   elif getattr(existing, attr) != getattr(declared, attr)
RoleAttrDiffers(dv, ev) ==
    IF ev.t = "list" THEN SetOf(ev.l) # SetOf(dv.l) ELSE Unequal(ev, dv)

\* set(getattr(declared, attr)) of a declared attribute that is None
RoleRaises(dec, ex) ==
    \E k \in DOMAIN ex : ex[k].t = "list" /\ dec[k].t # "list"

\* every key the existing descriptor has is iterated
IteratedKeys_Existing(d, dec, ex) ==
    SelectSeq(KeysOf(d), LAMBDA k : ex[k] # Missing)

\* for attr in existing.__dict__.keys()  (role, pool, provider: the keys of
\* the class);  for attr in update.__dict__.keys();
\* for attr in other.attributes  (the keys of the declared dict)
IteratedKeys(d, dec, ex) ==
    IF d \in {"role", "pool", "provider"}
    THEN SelectSeq(KeysOf(d), LAMBDA k : ex[k] # Missing)
    ELSE SelectSeq(KeysOf(d), LAMBDA k : dec[k] # Missing)

AttrDiffers(d, k, dec, ex) ==
    IF d = "role" THEN RoleAttrDiffers(dec[k], ex[k])
    ELSE Unequal(Get(dec, k), Get(ex, k))

\* mask.extend([p for p in other.projects if p['id'] not in projects_ids])
ProjectsToLink(d, dec, ex) ==
    IF d = "variableset"
    THEN SelectSeq(dec["projects"].l,
                   LAMBDA p : p \notin SetOf(ex["projects"].l))
    ELSE <<>>

MaskOf(d, dec, ex) ==
    SelectSeq(IteratedKeys(d, dec, ex),
              LAMBDA k : AttrDiffers(d, k, dec, ex))
        \o ProjectsToLink(d, dec, ex)

\* RootProject.diff with one project found: the declaration takes the name,
\* the id, the display name and the labels of the project found
Adopted(dec, ex) ==
    [dec EXCEPT !["name"] = ex["name"],
                !["uuid"] = ex["projectId"],
                !["displayName"] = ex["displayName"],
                !["labels"] = ex["labels"],
                !["projectId"] = ex["projectId"]]

DiffInit ==
    /\ differ \in Differs
    /\ declared_obj \in Changed(differ, "declared", {Base(differ)}, 1)
    /\ existing_obj \in Changed(differ, "existing", {Base(differ)}, MaxChanged)
    /\ declared_obj0 = declared_obj
    /\ existing_obj0 = existing_obj
    /\ dmask = <<>>
    /\ dpc = "start"

DiffEnds(o, m, dec) ==
    /\ dpc' = o
    /\ dmask' = m
    /\ declared_obj' = dec
    /\ UNCHANGED <<differ, existing_obj, declared_obj0, existing_obj0>>
    /\ UNCHANGED <<watchVars, matcherVars, runVars, script, policyVars,
                   laterVars>>

RoleDiff ==
    /\ dpc = "start"
    /\ differ = "role"
    /\ IF RoleRaises(declared_obj, existing_obj)
       THEN DiffEnds("raised", <<>>, declared_obj)
       ELSE DiffEnds("returned", MaskOf(differ, declared_obj, existing_obj),
                     declared_obj)

WorkloadDiff ==
    /\ dpc = "start"
    /\ differ \in {"pool", "provider"}
    /\ DiffEnds("returned", MaskOf(differ, declared_obj, existing_obj),
                declared_obj)

ServiceAccountDiff ==
    /\ dpc = "start"
    /\ differ = "service_account"
    /\ DiffEnds("returned", MaskOf(differ, declared_obj, existing_obj),
                declared_obj)

VariableDiff ==
    /\ dpc = "start"
    /\ differ = "variable"
    /\ DiffEnds("returned", MaskOf(differ, declared_obj, existing_obj),
                declared_obj)

VariableSetDiff ==
    /\ dpc = "start"
    /\ differ = "variableset"
    /\ DiffEnds("returned", MaskOf(differ, declared_obj, existing_obj),
                declared_obj)

\* returns projects[0], which is no list of attribute names
RootProjectDiff ==
    /\ dpc = "start"
    /\ differ = "root_project"
    /\ DiffEnds("returned", <<>>, Adopted(declared_obj, existing_obj))

DiffNext ==
    \/ RoleDiff
    \/ WorkloadDiff
    \/ ServiceAccountDiff
    \/ VariableDiff
    \/ VariableSetDiff
    \/ RootProjectDiff

SpecDiffInit ==
    DiffInit /\ WatchIdle /\ MatcherIdle /\ RunIdle /\ ScriptIdle /\ PolicyIdle
    /\ LaterIdle

SpecDiff == SpecDiffInit /\ [][DiffNext]_vars

-----------------------------------------------------------------------------
(* The descriptor of a resource found: _get_role, _get_pool, _get_provider  *)
(* and service_account._get build it from the declared identity and from    *)
(* the item of the listing whose name is the declared name                  *)

IdentityKinds == {"role", "pool", "provider", "service_account"}

\* the two identity attributes of a descriptor: the id, then the parent
IdKey(d) == KeysOf(d)[1]
ParentKey(d) == KeysOf(d)[2]

\* a string is the sequence of its parts; a separator the code splits on is
\* one part
IdValues == {<<"a">>, <<"b">>}

ParentValues(d) ==
    CASE d = "role" -> {<<"organizations", "/", x>> : x \in {"a", "b"}}
      [] d = "pool" -> {<<"projects", "/", x>> : x \in {"a", "b"}}
      [] d = "provider" ->
           {<<"projects", "/", x, "/locations/", "global",
              "/workloadIdentityPools/", "a">> : x \in {"a", "b"}}
      [] d = "service_account" -> {<<"a">>, <<"b">>}

\* str.split(sep)
RECURSIVE Split(_, _)
Split(q, sep) ==
    IF \E i \in 1..Len(q) : q[i] = sep
    THEN LET i == CHOOSE j \in 1..Len(q) :
                     q[j] = sep /\ \A h \in 1..(j - 1) : q[h] # sep
         IN <<SubSeq(q, 1, i - 1)>> \o Split(SubSeq(q, i + 1, Len(q)), sep)
    ELSE <<q>>

\* the first piece taken for the last
LastPiece_First(ps) == ps[1]

\* ...split(sep)[-1]
LastPiece(ps) == ps[Len(ps)]

\* ...split(sep)[0]
FirstPiece(ps) == ps[1]

\* the property name of the descriptor
NameOf(d, o) ==
    CASE d = "role" -> o["parent"].s \o <<"/roles/">> \o o["role_id"].s
      [] d = "pool" ->
           o["project"].s \o <<"/locations/", "global">>
               \o <<"/workloadIdentityPools/">> \o o["pool_id"].s
      [] d = "provider" ->
           o["parent"].s \o <<"/providers/">> \o o["provider_id"].s
      [] d = "service_account" ->
           <<"projects", "/">> \o o["project"].s \o <<"/serviceAccounts/">>
               \o o["account_id"].s \o <<"@">> \o o["project"].s
               \o <<".iam.gserviceaccount.com">>

\* update_from_dict: the id read in body['name']
IdOfName(d, n) ==
    CASE d = "role" -> LastPiece(Split(n, "/roles/"))
      [] d = "pool" -> LastPiece(Split(n, "/workloadIdentityPools/"))
      [] d = "provider" -> LastPiece(Split(n, "/providers/"))
      [] d = "service_account" ->
           FirstPiece(Split(LastPiece(Split(n, "/serviceAccounts/")), "@"))

\* update_from_dict: the parent read in body['name']
ParentOfName(d, n) ==
    CASE d = "role" -> FirstPiece(Split(n, "/roles/"))
      [] d = "pool" -> FirstPiece(Split(n, "/locations/"))
      [] d = "provider" -> FirstPiece(Split(n, "/providers/"))
      [] d = "service_account" ->
           LastPiece(Split(FirstPiece(Split(n, "/serviceAccounts/")), "/"))

\* existing = Descriptor(id, parent of the declaration);
\* existing.update_from_dict(body): the identity is read in body['name'],
\* the other attributes are those of the body
FoundDescriptor(d, n, body) ==
    [k \in DOMAIN body |->
        IF k = IdKey(d) THEN Str(IdOfName(d, n))
        ELSE IF k = ParentKey(d) THEN Str(ParentOfName(d, n))
        ELSE body[k]]

FoundInit ==
    /\ differ \in IdentityKinds
    /\ \E i \in IdValues : \E pr \in ParentValues(differ) :
          declared_obj = [Base(differ) EXCEPT ![IdKey(differ)] = Str(i),
                                             ![ParentKey(differ)] = Str(pr)]
    /\ existing_obj = <<>>
    /\ declared_obj0 = declared_obj
    /\ existing_obj0 = <<>>
    /\ dmask = <<>>
    /\ dpc = "get"

\* the matcher ends on the item whose name is the name of the declaration
GetFound ==
    /\ dpc = "get"
    /\ \E body \in Changed(differ, "existing", {Base(differ)}, MaxChanged) :
          /\ existing_obj' =
                FoundDescriptor(differ, NameOf(differ, declared_obj), body)
          /\ existing_obj0' = existing_obj'
    /\ dpc' = "start"
    /\ UNCHANGED <<differ, declared_obj, declared_obj0, dmask>>
    /\ UNCHANGED <<watchVars, matcherVars, runVars, script, policyVars,
                   laterVars>>

FoundNext ==
    \/ GetFound
    \/ RoleDiff
    \/ WorkloadDiff
    \/ ServiceAccountDiff

SpecFoundInit ==
    FoundInit /\ WatchIdle /\ MatcherIdle /\ RunIdle /\ ScriptIdle /\ PolicyIdle
    /\ LaterIdle

SpecFound == SpecFoundInit /\ [][FoundNext]_vars

-----------------------------------------------------------------------------
(* The configuration: config.py *)

\* the keys and the scalar values of the YAML documents
ConfigKeys == {"k1", "k2"}

ConfigScalars == {"s1", "s2"}

\* a value that is not a dictionary
Leaf(s) == [isdict |-> FALSE, v |-> s, d |-> EmptyDict]

\* a value that is a dictionary
Sub(f) == [isdict |-> TRUE, v |-> None, d |-> f]

DictsOver(vals) == UNION {[S -> vals] : S \in SUBSET ConfigKeys}

SubDicts == DictsOver({Leaf(s) : s \in ConfigScalars})

ConfigValues == {Leaf(s) : s \in ConfigScalars} \cup {Sub(f) : f \in SubDicts}

ConfigDicts == DictsOver(ConfigValues)

\* the exceptions the loop of _override(base, update) can raise, base being
\* any value and update a dictionary; which one is raised first depends on
\* the order of the keys of update
RECURSIVE OverrideErrors(_, _)
OverrideErrors(bv, u) ==
    UNION {IF u[k].isdict
           THEN IF ~bv.isdict THEN {"TypeError"}
                ELSE IF k \notin DOMAIN bv.d THEN {"KeyError"}
                ELSE OverrideErrors(bv.d[k], u[k].d)
           ELSE IF ~bv.isdict THEN {"TypeError"} ELSE {}
           : k \in DOMAIN u}

\* base[key] of the recursive call
BaseEntry(bv, k) == bv.d[k]

\* what _override(base, update) returns when its loop raises nothing
RECURSIVE Override(_, _)
Override(bv, u) ==
    IF ~bv.isdict THEN bv
    ELSE Sub([k \in DOMAIN bv.d \cup DOMAIN u |->
                 IF k \notin DOMAIN u THEN bv.d[k]
                 ELSE IF u[k].isdict THEN Override(BaseEntry(bv, k), u[k].d)
                 ELSE u[k]])

ConfigInit ==
    /\ config \in ConfigDicts
    /\ config0 = config
    /\ files \in {<<u>> : u \in ConfigDicts}
    /\ loaded = 0
    /\ config_error = None

ConfigFrame ==
    UNCHANGED <<watchVars, matcherVars, runVars, script, diffVars, policyVars,
                extendVars, iamVars, envVars, recordVars>>

\* config = _override(config, update), for one file of from_yaml
LoadFile ==
    /\ loaded < Len(files)
    /\ config_error = None
    /\ LET update == files[loaded + 1]
           errors == OverrideErrors(Sub(config), update)
       IN  /\ \/ /\ errors = {}
                 /\ config' = Override(Sub(config), update).d
                 /\ config_error' = None
              \/ /\ errors # {}
                 /\ config' = config
                 /\ config_error' \in errors
           /\ config0' = config
           /\ loaded' = loaded + 1
    /\ UNCHANGED files
    /\ ConfigFrame

ConfigNext == LoadFile

SpecConfigInit ==
    ConfigInit /\ WatchIdle /\ MatcherIdle /\ RunIdle /\ ScriptIdle /\ DiffIdle
    /\ PolicyIdle /\ ExtendIdle /\ IamIdle /\ EnvIdle /\ RecordIdle

SpecConfig == SpecConfigInit /\ [][ConfigNext]_vars

-----------------------------------------------------------------------------
(* Properties of watch *)

WatchDone == wpc = "done"
Sleeps == sleepsA + sleepsB

\* C1: when 'done' is present but false in the initial response and in every
\* fetched payload, watch raises the completion timeout after exactly
\* ceil(timeout / period) iterations of the second loop.
C1_CompletionTimeoutAfterCeil ==
    (WatchDone /\ initial.done = "false" /\ err.kind = "completion_timeout")
        => sleepsB = Ceil(timeout, period)

\* C2: when the initial response has a name and no 'done' flag and no fetched
\* payload has one, watch raises the status timeout after exactly
\* ceil(timeout / period) iterations of the first loop.
C2_StatusTimeoutAfterCeil ==
    (WatchDone /\ err.kind = "status_timeout")
        => sleepsA = Ceil(timeout, period)

C4_InitialDoneErrorRaises ==
    (WatchDone /\ initial.done = "true" /\ HasError(initial))
        => outcome = "raised"

C6_DoneWithoutResponseRaises ==
    (WatchDone /\ operation.done = "true"
              /\ ~HasError(operation) /\ ~HasResponse(operation))
        => (outcome = "raised" /\ err.kind = "no_response")

\* C27: watch only moves forward: after a message with a 'done' flag was
\* observed it leaves the first loop for the second and never comes back to
\* the first; once the message observed has done=true no further fetch is
\* executed; once watch has ended (returned, raised, timed out) nothing is
\* fetched and the outcome does not change.
C27_StatusOnlyMovesForward ==
    [][/\ (wpc = "loopA" /\ HasDone(operation)) => wpc' = "loopB"
       /\ wpc = "loopB" => wpc' \in {"loopB", "done"}
       /\ (wpc \in {"loopA", "loopB"} /\ operation.done = "true")
             => (fetches' = fetches /\ operation' = operation)
       /\ wpc = "done"
             => (/\ wpc' = "done" /\ fetches' = fetches
                 /\ outcome' = outcome /\ ret' = ret /\ err' = err)]_vars

C27_Witness ==
    /\ WatchDone
    /\ ~HasDone(initial)
    /\ sleepsA >= 1
    /\ sleepsB >= 1
    /\ operation.done = "true"
    /\ outcome = "returned"

\* C29: for every positive period and timeout, the time watch sleeps in one
\* loop (the sleeps of the loop times the period) never exceeds the timeout
\* by more than one period.
C29_SleepBoundedByTimeout ==
    /\ sleepsA * period <= timeout + period
    /\ sleepsB * period <= timeout + period

\* C30: the two loops are timed independently: the counter of the second
\* loop counts the iterations of the second loop only, and the completion
\* timeout is raised after the same number of iterations of the second loop
\* whatever number of iterations the first loop made.
C30_PhasesTimedIndependently ==
    /\ wpc = "loopB" => time_elapsed = sleepsB
    /\ err.kind = "completion_timeout"
          => (sleepsB = (timeout % period) + 1 /\ time_elapsed = sleepsB)

C30_Witness ==
    /\ err.kind = "completion_timeout"
    /\ timeout % period >= 1
    /\ sleepsA = (timeout % period) + 1
    /\ sleepsB = (timeout % period) + 1

\* the iterations one loop can make: time_elapsed goes from 0 to the first
\* value above timeout % period
LoopBound == (timeout % period) + 1

\* C34: watch terminates for every initial response, every positive period
\* and timeout and every sequence of payloads: it ends (returns or raises),
\* and the fetches it executes never exceed a bound that depends on period
\* and timeout only (the iterations of the two loops).
C34_WatchTerminates ==
    /\ <>WatchDone
    /\ [](fetches <= 2 * LoopBound /\ fetches = Sleeps)

C34_Witness ==
    /\ WatchDone
    /\ timeout % period >= 1
    /\ fetches = 2 * LoopBound
    /\ outcome = "returned"

\* the errors the docstring of watch lists
DocumentedErrors == {"message_error", "status_timeout", "completion_timeout",
                     "operation_error", "no_response"}

\* C35: for every initial response and every sequence of fetched payloads,
\* watch ends either by returning a result or by raising one of its
\* documented errors; it never ends in another failure.
C35_OnlyDocumentedErrors ==
    WatchDone =>
        \/ outcome = "returned" /\ err = NoErr
        \/ outcome = "raised" /\ err.kind \in DocumentedErrors

\* C28: a cancellation signal set by the caller while watch is polling stops
\* watch at the next iteration boundary: from then on nothing is fetched, and
\* watch ends with the outcome cancelled, which is none of the timeouts.
C28_CancelStopsPolling ==
    [][(cancel /\ wpc \in {"loopA", "loopB"})
          => /\ fetches' = fetches
             /\ wpc' = "done" => (outcome' = "cancelled"
                                  /\ err'.kind \notin {"status_timeout",
                                                       "completion_timeout"})
      ]_vars

-----------------------------------------------------------------------------
(* Properties of the matchers *)

AllItems == Flatten(pages)
MatchingItems == SelectSeq(AllItems, IdentityMatch)
MatcherEnded == mpc \in {"decided", "done"}

\* C7: when two or more existing items match the declared identity, the
\* matcher ends with the Ambiguous error (it neither reports one of them as
\* Found nor reports NotFound) and the reconcile ends with that error without
\* a create call and without a patch call.
C7_AmbiguousIsFatal ==
    (MatcherEnded /\ Len(MatchingItems) >= 2)
        => /\ mres = "Ambiguous"
           /\ creates = 0 /\ patches = 0
           /\ mpc = "done" => rout = "ambiguous"

\* C8: every Ambiguous error of a matcher carries the names of all the
\* conflicting resources found.
C8_AmbiguousCarriesNames ==
    mres = "Ambiguous"
        => (merr.carriesNames /\ merr.names = NamesOf(AllItems))

\* C9: a matcher ends (NotFound, Found or Ambiguous) only after every page
\* was fetched and the next request is None, and what it decides upon is the
\* items of all the pages: the list accumulated is the whole listing, the
\* item kept is the last matching item of the whole listing.
C9_AllPagesBeforeDeciding ==
    MatcherEnded
        => /\ request = 0
           /\ listed = Len(pages)
           /\ kind \in LastWinsKinds
                 => existing = LastMatch(AllItems, NoItem)
           /\ kind \notin LastWinsKinds => acc = AllItems

C9_Witness ==
    /\ MatcherEnded
    /\ kind = "pool"
    /\ Len(pages) >= 2
    /\ \A i \in 1..Len(pages[1]) : ~IdentityMatch(pages[1][i])
    /\ mres = "Found"
    /\ found.rid[1] = Len(pages)

\* C10: an item is reported as Found only if its identity equals the
\* declared identity; an item whose name only contains the declared name is
\* never adopted.
C10_FoundIsExact ==
    mres = "Found" => IdentityMatch(found)

-----------------------------------------------------------------------------
(* Properties of the apply/generate functions *)

ReconcileDone == mpc = "done"
Reconciled == Kinds \ {"organization"}

\* C11: for every kind that is reconciled, when the listing answers no item
\* at all the matcher ends with NotFound (not with an error), the reconcile
\* issues exactly one create call and no patch call, and it ends well with
\* the resource the create call answered.
C11_EmptyListingCreatesOnce ==
    (ReconcileDone /\ kind \in Reconciled /\ AllItems = <<>>)
        => /\ mres = "NotFound"
           /\ rout = "ok"
           /\ creates = 1
           /\ created # NoItem
           /\ current = created

\* C18: in every reconcile a create call is issued only if the matcher ended
\* with NotFound, and a patch call is issued only if the mask computed by the
\* diff is not empty.
C18_CreateAndPatchAreGuarded ==
    ReconcileDone
        => /\ creates > 0 => mres = "NotFound"
           /\ patches > 0 => mask # {}

C18_Witness ==
    /\ ReconcileDone
    /\ kind = "tag_key"
    /\ mres = "Found"
    /\ mask # {}
    /\ patches = 1
    /\ creates = 0

\* C19: a reconcile issues at most one mutating call: the diff runs only
\* when the matcher ended with Found, so after NotFound there is exactly one
\* create call and no patch call, and after Found there is at most one patch
\* call and no create call.
C19_AtMostOneMutatingCall ==
    ReconcileDone
        => /\ creates + patches <= 1
           /\ diffs > 0 => mres = "Found"
           /\ (mres = "NotFound" /\ rout = "ok")
                 => (creates = 1 /\ patches = 0)
           /\ mres = "Found" => (creates = 0 /\ patches <= 1)

\* create answers an operation that carries only a name, the first fetch
\* answers done=false, the second done=true with a response and no error
CreateScenario ==
    /\ HasName(initial) /\ ~HasDone(initial)
    /\ ~HasError(initial) /\ ~HasResponse(initial)
    /\ script[1].done = "false"
    /\ script[2].done = "true"
    /\ HasResponse(script[2]) /\ ~HasError(script[2])

C13_SecondRunIsQuiet ==
    /\ run = 2 => (creates = 0 /\ patches = 0)
    /\ (ReconcileDone /\ mres = "Found" /\ mask = {})
          => (creates = 0 /\ patches = 0)

C13_Witness ==
    /\ run = 2
    /\ ReconcileDone
    /\ kind = "role"
    /\ firstRun.patches = 1
    /\ mres = "Found"
    /\ diffs = 1
    /\ mask = {}
    /\ patches = 0

-----------------------------------------------------------------------------
(* Properties of the diff functions *)

DiffReturned == dpc = "returned"
InMask(k) == k \in SetOf(dmask)
NoRepeat(q) == Cardinality(SetOf(q)) = Len(q)

\* the diff functions that return a list of attribute names
MaskDiffers == Differs \ {"root_project"}

\* the list-valued attribute of a role, and the attribute of a provider that
\* holds its allowed audiences
ListAttr(d) == IF d = "role" THEN "includedPermissions" ELSE "oidc"

\* C14: a list-valued attribute (the includedPermissions of a role, the
\* allowed audiences of a provider) is compared as a set: when the declared
\* and the existing list hold the same elements, whatever their order, the
\* attribute is not in the mask; when an element was added, removed or
\* changed, it is in the mask.
C14_ListsComparedAsSets ==
    (DiffReturned /\ differ \in {"role", "provider"})
        => LET dv == declared_obj0[ListAttr(differ)]
               ev == existing_obj0[ListAttr(differ)]
           IN (/\ dv.t = ev.t
               /\ dv.t \in {"list", "dict"}
               /\ NoRepeat(dv.l) /\ NoRepeat(ev.l))
                 => (InMask(ListAttr(differ)) <=> SetOf(dv.l) # SetOf(ev.l))

ScalarKeys(d) ==
    SetOf(KeysOf(d))
        \ {"includedPermissions", "oidc", "attribute_mapping", "created-at"}

\* C15: for every scalar attribute k of a descriptor, k is in the mask the
\* diff function returns if and only if the declared value of k differs from
\* the existing value of k (a key the existing attributes lack reads None).
C15_ScalarInMaskIffDiffers ==
    (DiffReturned /\ differ \in MaskDiffers)
        => \A k \in ScalarKeys(differ) :
              InMask(k) <=> Get(declared_obj0, k) # Get(existing_obj0, k)

C15_Witness ==
    /\ DiffReturned
    /\ differ = "service_account"
    /\ declared_obj0["display_name"] # existing_obj0["display_name"]
    /\ InMask("display_name")
    /\ ~InMask("description")

C17_DiffLeavesInputs ==
    dpc # "start"
        => (declared_obj = declared_obj0 /\ existing_obj = existing_obj0)

-----------------------------------------------------------------------------
(* Properties of the IAM policies *)

\* the (role, member) pairs of a list of bindings
Pairs(bs) ==
    UNION {{<<bs[i].role, m>> : m \in SetOf(bs[i].members)} :
              i \in 1..Len(bs)}

\* C20: after control / access_control, the policy the resource holds is
\* exactly the declared policy, whatever it held before: the same bindings,
\* and no (role, member) pair that the declared policy does not have.
C20_ApplyReplacesPolicy ==
    ppc = "done"
        => /\ remote = policy
           /\ Pairs(remote) = Pairs(policy)

C20_Witness ==
    /\ ppc = "done"
    /\ sent.api = "serviceAccounts.setIamPolicy"
    /\ Pairs(remote0) \ Pairs(policy) # {}
    /\ Pairs(policy) \ Pairs(remote0) # {}
    /\ remote = policy

-----------------------------------------------------------------------------
(* Properties of add_control *)

\* no two bindings of the list have the same role
UniqueRoles(bs) ==
    \A i, j \in 1..Len(bs) : bs[i].role = bs[j].role => i = j

\* no other call has read or written the policy of the resource c names
OnlyCallOn(c) ==
    \A d \in Callers \ {c} :
        extend[d].resource # extend[c].resource \/ extend[d].pc = "start"

\* the calls that named the resource and have returned
DoneOn(r) == {c \in Callers : extend[c].resource = r /\ extend[c].pc = "done"}

\* C21: policy extend is additive with role-level union: after one
\* add_control on a resource whose policy had one entry per role, the policy
\* has one entry per role again, and its (role, member) pairs are those it had
\* together with those of the extra policy ({A: [x]} extended by {A: [z]} is
\* the single entry {A: [x, z]}).
C21_ExtendUnionsByRole ==
    \A c \in Callers :
        (/\ extend[c].pc = "done"
         /\ OnlyCallOn(c)
         /\ UniqueRoles(held0[extend[c].resource]))
            => /\ UniqueRoles(held[extend[c].resource])
               /\ Pairs(held[extend[c].resource])
                     = Pairs(held0[extend[c].resource])
                          \cup Pairs(extend[c].extra)

\* C22: after any sequence of serialized add_control calls on one resource,
\* every (role, member) pair the resource held before the sequence and every
\* pair of the extra policy of every call that returned is in the policy the
\* resource holds.
C22_ExtendNeverDrops ==
    ~overlapped =>
        \A r \in Resources :
            /\ Pairs(held0[r]) \subseteq Pairs(held[r])
            /\ \A c \in DoneOn(r) :
                  Pairs(extend[c].extra) \subseteq Pairs(held[r])

C22_Witness ==
    /\ ~overlapped
    /\ DoneOn("org1") = Callers
    /\ held0["org1"] # <<>>
    /\ extend["c1"].extra # extend["c2"].extra
    /\ Pairs(extend["c1"].extra) \cap Pairs(held0["org1"]) = {}
    /\ Pairs(extend["c2"].extra) \cap Pairs(held0["org1"]) = {}

\* C24: two add_control calls on the same resource that have both returned:
\* when one read the policy while the other was between its read and its
\* write, the resource holds what it held before followed by the bindings of
\* one call only (the bindings of the other call are lost); when the calls
\* were serialized, it holds the bindings of both after what it held before.
C24_LostUpdateUnlessSerialized ==
    \A r \in Resources :
        DoneOn(r) = Callers =>
            IF overlapped
            THEN \E c \in Callers : held[r] = held0[r] \o extend[c].extra
            ELSE \E c \in Callers : \E d \in Callers \ {c} :
                    held[r] = held0[r] \o extend[c].extra \o extend[d].extra

C24_Witness ==
    /\ overlapped
    /\ DoneOn("org1") = Callers
    /\ ~(Pairs(extend["c1"].extra) \subseteq Pairs(held["org1"]))
    /\ Pairs(extend["c2"].extra) \subseteq Pairs(held["org1"])

\* C25: add_control calls on different resources are independent: under every
\* interleaving of their reads and writes, a resource named by one call only
\* holds, once that call has returned, what the call alone makes of what the
\* resource held before, and holds what it held before until then.
C25_DifferentResourcesIndependent ==
    \A c \in Callers :
        (\A d \in Callers \ {c} : extend[d].resource # extend[c].resource)
            => held[extend[c].resource] =
                  IF extend[c].pc = "done"
                  THEN held0[extend[c].resource] \o extend[c].extra
                  ELSE held0[extend[c].resource]

C25_Witness ==
    /\ extend["c1"].resource = "org1"
    /\ extend["c2"].resource = "org2"
    /\ extend["c1"].pc = "done"
    /\ extend["c2"].pc = "read"
    /\ extend["c2"].response = held0["org2"]
    /\ held["org1"] = held0["org1"] \o extend["c1"].extra
    /\ held0["org1"] # held0["org2"]

-----------------------------------------------------------------------------
(* Properties of IamPolicy *)

\* the members declared so far under the role
DeclaredMembers(r) ==
    UNION {SetOf(declarations[i].members) :
              i \in {j \in 1..Len(declarations) : declarations[j].role = r}}

\* C23: an IamPolicy built from any list of bindings and changed by any
\* sequence of add calls renders exactly one binding per distinct role
\* declared, and the members of that binding are the union of the members of
\* all the declarations of the role.
C23_OneBindingPerRoleWithUnion ==
    /\ UniqueRoles(Rendered)
    /\ KeysOfPolicy(Rendered)
          = {declarations[i].role : i \in 1..Len(declarations)}
    /\ \A i \in 1..Len(Rendered) :
          SetOf(Rendered[i].members) = DeclaredMembers(Rendered[i].role)

\* C37: _override(base, update) returns base where every key of update has
\* replaced the value in base, key by key and sub-key by sub-key for the
\* values that are dictionaries, the keys of base absent from update being
\* kept, for every pair of dictionaries, a base without a key whose value in
\* update is a dictionary included.
C37_OverrideReplacesKeyByKey ==
    loaded = 1 =>
        /\ config_error = None
        /\ DOMAIN config = DOMAIN config0 \cup DOMAIN files[1]
        /\ \A k \in DOMAIN config0 \ DOMAIN files[1] : config[k] = config0[k]
        /\ \A k \in DOMAIN files[1] :
               IF ~files[1][k].isdict THEN config[k] = files[1][k]
               ELSE /\ config[k].isdict
                    /\ \A sk \in DOMAIN files[1][k].d :
                           config[k].d[sk] = files[1][k].d[sk]
                    /\ (k \in DOMAIN config0 /\ config0[k].isdict) =>
                           \A sk \in DOMAIN config0[k].d \ DOMAIN files[1][k].d :
                               /\ sk \in DOMAIN config[k].d
                               /\ config[k].d[sk] = config0[k].d[sk]

\* C36: the construction of an IamPolicy and IamPolicy.add never modify the
\* binding arguments supplied by the caller: no members list passed by the
\* caller changes when a role is declared or declared again.
C36_ArgumentsNeverModified ==
    [][objects' = objects]_vars

-----------------------------------------------------------------------------
(* Properties of the failures of the lookup *)

\* C26: a failure of the matcher's remote call is never swallowed: the
\* matcher does not end with NotFound (nor Found), the apply/generate
\* function issues no create and no patch call after it, and it ends with
\* the failure.
C26_LookupFailureSurfaces ==
    failure # "none" =>
        /\ mres = "Failed"
        /\ creates = 0
        /\ patches = 0
        /\ mpc = "done" => rout = "failed"

-----------------------------------------------------------------------------
(* Properties of the descriptor of a resource found *)

\* C31: the mask computed for a resource that the matcher found never
\* contains an identity attribute of the descriptor (the id and the parent
\* or project of a role, a pool, a provider, a service account).
C31_IdentityNeverInMask ==
    dpc = "returned" =>
        /\ ~InMask(IdKey(differ))
        /\ ~InMask(ParentKey(differ))
        /\ existing_obj[IdKey(differ)] = declared_obj[IdKey(differ)]
        /\ existing_obj[ParentKey(differ)] = declared_obj[ParentKey(differ)]

C31_Witness ==
    /\ dpc = "returned"
    /\ differ = "service_account"
    /\ declared_obj["project"] = Str(<<"b">>)
    /\ InMask("description")
    /\ ~InMask("account_id")

-----------------------------------------------------------------------------
(* Properties of the update step *)

\* C32: when the mask is empty, the update step returns the original
\* existing resource (the one the matcher found, or the one just created),
\* with the attribute values read from the remote system unchanged, and
\* issues no patch call.
C32_EmptyMaskReturnsExisting ==
    (mpc = "done" /\ rout = "ok" /\ diffs = 1 /\ mask = {})
        => /\ patches = 0
           /\ current = (IF creates = 1 THEN created ELSE found)

-----------------------------------------------------------------------------
(* Properties of the name recorded after a create *)

\* C33: after a create has completed, the name recorded for the resource
\* (self.name of a tag key, a folder, a project) is the name of the resource
\* in the response of the completed operation, not the name of the operation.
C33_RecordedNameIsResourceName ==
    (mpc = "done" /\ creates = 1 /\ rout = "ok"
        /\ kind \in {"tag_key", "folder", "project"})
        => /\ self_name = ResourceName(ret.op.response)
           /\ self_name # ret.op.name

=============================================================================
